---- MODULE Spec2Model ----
(***************************************************************************)
(* A model of the redux store engine (src/src/createStore.js) and of the   *)
(* reducer composer (combineReducers, src/unnamed/part_000).               *)
(*                                                                         *)
(* JavaScript runs one call stack.  The store calls back into application  *)
(* code (the reducer, the listeners) and that code may call the store      *)
(* again, so dispatch is split at every point where control leaves the     *)
(* store: the variable stack holds the frames of the dispatch calls in     *)
(* progress and of the listener that is running.                           *)
(***************************************************************************)
EXTENDS Integers, Sequences, FiniteSets, TLC

\* ------------------------------------------------------------- bounds
MaxRegs == 3         \* subscribe calls that register a listener (Spec)
MaxDispatches == 2   \* dispatch calls accepted after construction
MaxRegsState == 1    \* subscribe calls that register a listener (SpecState)

\* ------------------------------------------------------------- values
(* A JavaScript value.  Primitives are compared by value and objects by    *)
(* reference, so an object carries the reference ref it was allocated at.  *)
(* A top-level value has the own-property map m over Keys; the value of a  *)
(* property is a sub-value (a number or a boxed counter {n: k}).           *)
Keys == {"a", "b", "c"}

AbsentSV == [t |-> "absent", ref |-> 0, n |-> 0]
UndefSV == [t |-> "undef", ref |-> 0, n |-> 0]
NumSV(k) == [t |-> "num", ref |-> 0, n |-> k]
BoxSV(r, k) == [t |-> "obj", ref |-> r, n |-> k]

NoProps == [k \in Keys |-> AbsentSV]
Undef == [t |-> "undef", ref |-> 0, n |-> 0, m |-> NoProps]
Num(k) == [t |-> "num", ref |-> 0, n |-> k, m |-> NoProps]
Obj(r, props) == [t |-> "obj", ref |-> r, n |-> 0, m |-> props]

\* Object.keys(v): the own properties of an object
OwnKeys(v) == IF v.t = "obj" THEN {k \in Keys : v.m[k].t # "absent"} ELSE {}

\* state[key]: undefined for a property that is absent (and for a number)
GetProp(v, k) ==
  IF v.t = "obj" /\ v.m[k].t # "absent" THEN v.m[k] ELSE UndefSV

\* x !== y
StrictNeq(x, y) ==
  IF x.t = "obj" /\ y.t = "obj" THEN x.ref # y.ref ELSE x # y

\* the references a value holds
RefsOf(v) ==
  (IF v.t = "obj" THEN {v.ref} ELSE {})
    \cup {v.m[k].ref : k \in {j \in Keys : v.m[j].t = "obj"}}

\* the reference of a newly allocated object: one that is not in use
Fresh(used) == CHOOSE r \in 1..(Cardinality(used) + 1) :
                 r \notin used /\ \A q \in 1..(r - 1) : q \in used

\* ------------------------------------------------------------ actions
INIT == "@@redux/INIT"
REPLACE == "@@redux/REPLACE"
PROBE == "@@redux/PROBE_UNKNOWN_ACTION"
NoType == "undefined"

\* an action: a plain object or not, and its type (NoType: no type property)
Action(p, ty) == [plain |-> p, type |-> ty]
AppTypes == {"INC", "NOOP", "BAD"}
AppActions == {Action(TRUE, ty) : ty \in AppTypes}
                \cup {Action(TRUE, NoType), Action(FALSE, "INC")}

\* ------------------------------------------------- application reducers
(* Reducers are supplied by the application.  The sub-reducers composed    *)
(* by combineReducers:                                                     *)
(*   box  (state = {n: 0}, action): a new object {n: state.n + 1} on INC   *)
(*        and on BAD, a new copy {n: state.n} on TOUCH, state otherwise;   *)
(*   prim (state = 0, action): state + 1 on INC, undefined on BAD, state   *)
(*        otherwise;                                                       *)
(*   noinit (state, action): state, so undefined for an undefined state;   *)
(*   initonly (state, action): 0 on INIT, state otherwise, so undefined    *)
(*        for an undefined state and any other action type.                *)
NotFn == "notAFunction"
SubReducers == {"box", "prim", "noinit", "initonly"}

SubReduce(name, prev, type, used) ==
  CASE name = "box" ->
         LET s == IF prev.t = "undef" THEN BoxSV(Fresh(used), 0) ELSE prev
             u == used \cup {s.ref}
         IN  IF type \in {"INC", "BAD"} THEN BoxSV(Fresh(u), s.n + 1)
             ELSE IF type = "TOUCH" THEN BoxSV(Fresh(u), s.n)
             ELSE s
    [] name = "prim" ->
         LET s == IF prev.t = "undef" THEN NumSV(0) ELSE prev
         IN  IF type = "INC" THEN NumSV(s.n + 1)
             ELSE IF type = "BAD" THEN UndefSV
             ELSE s
    [] name = "initonly" -> IF type = INIT THEN NumSV(0) ELSE prev
    [] OTHER -> prev

\* --------------------------------------------------- combineReducers
\* the result of a reducer call: a returned value, or a thrown error
Returned(v) == [ok |-> TRUE, val |-> v, err |-> "none", key |-> "none"]
\* e is thrown for key k; partial is what the call had built by then
Thrown(e, k, partial) == [ok |-> FALSE, val |-> partial, err |-> e, key |-> k]

\* finalReducers: the callable entries of the mapping, in key order
FinalReducerKeys(mapping) ==
  SelectSeq(mapping, LAMBDA e : e.red # NotFn)

\* assertReducerShape: the first key whose reducer returns undefined for
\* (undefined, INIT) or for (undefined, a random unknown type)
RECURSIVE AssertReducerShape(_, _)
AssertReducerShape(finals, i) ==
  IF i > Len(finals) THEN "none"
  ELSE IF SubReduce(finals[i].red, UndefSV, INIT, {}).t = "undef"
         THEN "ReducerReturnedUndefined:init"
  ELSE IF SubReduce(finals[i].red, UndefSV, PROBE, {}).t = "undef"
         THEN "ReducerReturnedUndefined:probe"
  ELSE AssertReducerShape(finals, i + 1)

CombineReducers(mapping) ==
  LET finals == FinalReducerKeys(mapping)
  IN  [finals |-> finals,
       shapeAssertionError |-> AssertReducerShape(finals, 1)]

\* hasChanged = hasChanged || nextStateForKey !== previousStateForKey
HasChangedLastKeyOnly(hasChanged, nextStateForKey, previousStateForKey) ==
  StrictNeq(nextStateForKey, previousStateForKey)

HasChanged(hasChanged, nextStateForKey, previousStateForKey) ==
  hasChanged \/ StrictNeq(nextStateForKey, previousStateForKey)

\* the loop of combination over finalReducerKeys, from key i on
RECURSIVE CombineLoop(_, _, _, _, _, _)
CombineLoop(finals, i, state, type, nextState, hasChanged) ==
  IF i > Len(finals)
  THEN Returned(IF hasChanged THEN nextState ELSE state)
  ELSE LET key == finals[i].key
           previousStateForKey == GetProp(state, key)
           nextStateForKey ==
             SubReduce(finals[i].red, previousStateForKey, type,
                       RefsOf(state) \cup RefsOf(nextState))
       IN  IF nextStateForKey.t = "undef"
           THEN Thrown("ReducerReturnedUndefined", key, nextState)
           ELSE CombineLoop(finals, i + 1, state, type,
                  [nextState EXCEPT !.m[key] = nextStateForKey],
                  HasChanged(hasChanged, nextStateForKey,
                             previousStateForKey))

\* const nextState = {}
NewNextState(state) == Obj(Fresh(RefsOf(state)), NoProps)

\* the parameter state = {}: a new empty object for an undefined argument
StateOrDefault(stateArg) ==
  IF stateArg.t = "undef" THEN Obj(Fresh({}), NoProps) ELSE stateArg

CombinationUnchecked(c, stateArg, type) ==
  LET state == StateOrDefault(stateArg)
  IN  CombineLoop(c.finals, 1, state, type, NewNextState(state), FALSE)

\* combination(state = {}, action) of the composed reducer c
Combination(c, stateArg, type) ==
  LET state == StateOrDefault(stateArg)
  IN  IF c.shapeAssertionError # "none"
      THEN Thrown(c.shapeAssertionError, "none", Undef)
      ELSE CombineLoop(c.finals, 1, state, type, NewNextState(state), FALSE)

\* ------------------------------------------------- top-level reducers
(* The reducers a store is built on:                                       *)
(*   counter (state = 0, action): state + 1 on INC, throws on BAD, state   *)
(*           otherwise (and for a state that is not a number);             *)
(*   double  (state = 0, action): state + 2 on INC, state otherwise;       *)
(*   combo   combineReducers({a: box, b: prim, c: <not a function>}).      *)
Reducers == {"counter", "double", "combo"}

ComboMapping == << [key |-> "a", red |-> "box"],
                   [key |-> "b", red |-> "prim"],
                   [key |-> "c", red |-> NotFn] >>

\* further mappings given to combineReducers, and the reducers composed
\* from them
MapNone == << [key |-> "c", red |-> NotFn] >>
MapA == << [key |-> "a", red |-> "box"] >>
MapBad == << [key |-> "a", red |-> "box"], [key |-> "b", red |-> "noinit"] >>
MapProbe == << [key |-> "a", red |-> "box"], [key |-> "b", red |-> "initonly"] >>
Mappings == {ComboMapping, MapA, MapNone, MapBad, MapProbe}

Composed == {"combo", "comboA", "comboNone", "comboBad", "comboProbe"}
MappingOf(red) == CASE red = "combo" -> ComboMapping
                    [] red = "comboA" -> MapA
                    [] red = "comboNone" -> MapNone
                    [] red = "comboBad" -> MapBad
                    [] OTHER -> MapProbe
ComposedFrom(mapping) == CHOOSE red \in Composed : MappingOf(red) = mapping

Reduce(red, stateArg, type) ==
  CASE red \in Composed ->
         Combination(CombineReducers(MappingOf(red)), stateArg, type)
    [] OTHER ->
         LET state == IF stateArg.t = "undef" THEN Num(0) ELSE stateArg
         IN  IF state.t # "num" THEN Returned(state)
             ELSE IF type = "BAD" /\ red = "counter"
               THEN Thrown("ReducerError", "none", Undef)
             ELSE IF type = "INC"
               THEN Returned(Num(state.n + (IF red = "double" THEN 2 ELSE 1)))
             ELSE Returned(state)

\* the (reducer, preloadedState) arguments given to createStore
ObjExtra == Obj(1, [NoProps EXCEPT !["a"] = BoxSV(2, 0), !["b"] = NumSV(0),
                                   !["c"] = NumSV(7)])
CreateArgs == { << "counter", Undef >>, << "counter", Num(1) >>,
                << "combo", Undef >>, << "combo", ObjExtra >>,
                << NotFn, Undef >> }
\* the arguments given to replaceReducer
ReplaceArgs == {"double", NotFn}

\* ------------------------------------------------------------ compose
(* A function value: the reference id of the function object and what a    *)
(* call of it does, as the program prog of primitive functions that are    *)
(* applied to the argument from the last to the first.                     *)
Prims == {"inc", "dbl", "neg"}
ApplyPrim(f, x) == CASE f = "inc" -> x + 1
                     [] f = "dbl" -> 2 * x
                     [] OTHER -> 0 - x
PrimFn(f) == [id |-> f, prog |-> << f >>]

\* arg => arg
Identity == [id |-> "identity", prog |-> << >>]

\* (...args) => a(b(...args))
ClosureReversed(a, b) == [id |-> "closure", prog |-> b.prog \o a.prog]

Closure(a, b) == [id |-> "closure", prog |-> a.prog \o b.prog]

\* funcs.reduce(callback) without an initial value: acc starts as funcs[0]
RECURSIVE ReduceFuncs(_, _, _)
ReduceFuncs(funcs, i, acc) ==
  IF i > Len(funcs) THEN acc
  ELSE ReduceFuncs(funcs, i + 1, Closure(acc, funcs[i]))

ComposeSkipsSecond(funcs) ==
  IF Len(funcs) = 0 THEN Identity
  ELSE IF Len(funcs) = 1 THEN funcs[1]
  ELSE ReduceFuncs(funcs, 3, funcs[1])

Compose(funcs) ==
  IF Len(funcs) = 0 THEN Identity
  ELSE IF Len(funcs) = 1 THEN funcs[1]
  ELSE ReduceFuncs(funcs, 2, funcs[1])

\* the call fn(x): the primitives of prog applied from the last to the first
RECURSIVE CallFn(_, _)
CallFn(fn, x) ==
  IF fn.prog = << >> THEN x
  ELSE ApplyPrim(fn.prog[1], CallFn([fn EXCEPT !.prog = Tail(@)], x))

\* --------------------------------------------------------- the store
Fns == {"f", "g"}          \* the listener functions of the application
ArrIds == 1..(MaxDispatches + 3)   \* references of listener arrays

VARIABLES
  phase,             \* "new", "creating" (createStore is running), "ready", "failed"
  currentReducer,
  currentState,
  currentListeners,  \* a reference into heap
  nextListeners,     \* a reference into heap
  heap,              \* the listener arrays, by reference
  isDispatching,
  regs,              \* the closures made by subscribe: <<[fn, isSubscribed]>>
  stack,             \* the call stack: dispatch calls and the running listener
  ret,               \* how the call of the store API that just ended, ended
  log,               \* history: the reducer calls made by dispatch
  preloaded,         \* history: createStore's preloadedState argument
  pendingMut,        \* history: a listener changed the membership during a
                     \* pass and no snapshot has been taken since
  comb,              \* SpecCombine: a call of a composed reducer
  mw,                \* SpecMw: the store enhanced by applyMiddleware
  cmp                \* SpecCompose: a call of compose and of its result

vars == << phase, currentReducer, currentState, currentListeners,
           nextListeners, heap, isDispatching, regs, stack, ret, log,
           preloaded, pendingMut, comb, mw, cmp >>

NoAction == Action(FALSE, "none")
\* no call has ended since application code (re)gained control
NoRet == [op |-> "none", kind |-> "none", err |-> "none", at |-> "none",
          arg |-> 0, val |-> Undef, act |-> NoAction]
\* the call op (of the closure unsubscribe number arg) returned v
Ok(op, arg, v, a) ==
  [op |-> op, kind |-> "ok", err |-> "none", at |-> "none", arg |-> arg,
   val |-> v, act |-> a]
\* the call op threw e: from a check of the store itself (at "guard"), or
\* an error of the reducer or of a listener that left dispatch uncaught
Throw(op, arg, e, at, a) ==
  [op |-> op, kind |-> "throw", err |-> e, at |-> at, arg |-> arg,
   val |-> Undef, act |-> a]

\* a frame of dispatch: in its reducer call (kind "reducer") or in its
\* notification loop (kind "notify"); kind "listener": a running listener
ReducerFrame(via, a, red, pre) ==
  [kind |-> "reducer", via |-> via, action |-> a, red |-> red, pre |-> pre,
   rejected |-> "none", listeners |-> 0, i |-> 0, snap |-> << >>,
   live |-> << >>, latest |-> << >>, called |-> << >>, mutated |-> FALSE,
   afterMut |-> FALSE, fn |-> "none"]
ListenerFrame(f) ==
  [kind |-> "listener", via |-> "none", action |-> NoAction, red |-> "none",
   pre |-> Undef, rejected |-> "none", listeners |-> 0, i |-> 0,
   snap |-> << >>, live |-> << >>, latest |-> << >>, called |-> << >>,
   mutated |-> FALSE, afterMut |-> FALSE, fn |-> f]

Top == stack[Len(stack)]
CtxOf(stk) == IF stk = << >> THEN "app" ELSE stk[Len(stk)].kind
Ctx == CtxOf(stack)
Pop(stk) == SubSeq(stk, 1, Len(stk) - 1)

\* application code is running and holds the store
CanCall == phase = "ready" /\ Ctx \in {"app", "listener", "reducer"}

\* the functions of the registrations that are subscribed, in the order
\* of their subscribe calls
LiveFns(rs) ==
  LET live == SelectSeq(rs, LAMBDA r : r.isSubscribed)
  IN  [j \in 1..Len(live) |-> live[j].fn]

(* The functions of the listener array as subscribe and unsubscribe keep   *)
(* it: unsubscribe removes the first occurrence of its function, so of a   *)
(* function with k subscribed registrations the array holds the places of  *)
(* the k registrations made last.                                          *)
LatestFns(rs) ==
  LET liveCount(f) ==
        Cardinality({j \in 1..Len(rs) : rs[j].fn = f /\ rs[j].isSubscribed})
      later(j) == Cardinality({q \in (j + 1)..Len(rs) : rs[q].fn = rs[j].fn})
      Kept(j) == later(j) < liveCount(rs[j].fn)
      idx == {j \in 1..Len(rs) : Kept(j)}
      RECURSIVE Walk(_)
      Walk(j) == IF j > Len(rs) THEN << >>
                 ELSE IF j \in idx THEN << rs[j].fn >> \o Walk(j + 1)
                 ELSE Walk(j + 1)
  IN  Walk(1)

\* ---- the listener arrays
Referenced(cur, nxt, stk) ==
  {cur, nxt} \cup {stk[j].listeners : j \in {q \in 1..Len(stk) : stk[q].kind = "notify"}}

\* an array nothing refers to any more is garbage
Gc(h, cur, nxt, stk) ==
  [a \in ArrIds |-> IF a \in Referenced(cur, nxt, stk) THEN h[a] ELSE << >>]

NewArr == CHOOSE a \in ArrIds :
            /\ a \notin Referenced(currentListeners, nextListeners, stack)
            /\ \A b \in ArrIds : b < a =>
                 b \in Referenced(currentListeners, nextListeners, stack)

\* the store's listener lists as one value
Lists == [cur |-> currentListeners, nxt |-> nextListeners, heap |-> heap]

EnsureCanMutateNever(L) == L

EnsureCanMutateNextListeners(L) ==
  IF L.nxt = L.cur
  THEN [L EXCEPT !.nxt = NewArr, !.heap[NewArr] = L.heap[L.cur]]
  ELSE L

SnapshotStale(L) == L

\* const listeners = (currentListeners = nextListeners)
SnapshotListeners(L) == [L EXCEPT !.cur = L.nxt]

\* nextListeners.push(listener)
Push(L, f) == [L EXCEPT !.heap[L.nxt] = Append(@, f)]

\* array.indexOf(x): the first index (from 0) of x, -1 when there is none
IndexOf(s, x) ==
  IF \E j \in 1..Len(s) : s[j] = x
  THEN (CHOOSE j \in 1..Len(s) : s[j] = x /\ \A q \in 1..(j - 1) : s[q] # x) - 1
  ELSE -1

\* array.splice(index, 1): a negative index counts from the end
Splice1(s, index) ==
  LET start == IF index < 0
               THEN (IF Len(s) + index < 0 THEN 0 ELSE Len(s) + index)
               ELSE (IF index > Len(s) THEN Len(s) ELSE index)
  IN  IF start >= Len(s) THEN s
      ELSE SubSeq(s, 1, start) \o SubSeq(s, start + 2, Len(s))

\* nextListeners.splice(nextListeners.indexOf(listener), 1)
Remove(L, f) ==
  [L EXCEPT !.heap[L.nxt] = Splice1(@, IndexOf(@, f))]

SetLists(L, stk) ==
  /\ currentListeners' = L.cur
  /\ nextListeners' = L.nxt
  /\ heap' = Gc(L.heap, L.cur, L.nxt, stk)

\* history: a subscribe or unsubscribe made by a running listener marks
\* the notification pass that called the listener
MarkMutated(stk) ==
  IF Len(stk) >= 2 /\ stk[Len(stk)].kind = "listener"
  THEN [stk EXCEPT ![Len(stk) - 1].mutated = TRUE]
  ELSE stk

\* history: a call rejected while the reducer runs marks the reducer's frame
MarkRejected(stk, e) ==
  IF stk # << >> /\ stk[Len(stk)].kind = "reducer"
  THEN [stk EXCEPT ![Len(stk)].rejected = e]
  ELSE stk

\* ------------------------------------------------------------ Init
\* no result yet; the value v returned; the error e thrown
NoRes == [kind |-> "none", val |-> "none", err |-> "none", short |-> FALSE]
Value(v, short) == [kind |-> "ok", val |-> v, err |-> "none", short |-> short]
Raised(e) == [kind |-> "throw", val |-> "none", err |-> e, short |-> FALSE]

NoMw == [phase |-> "none", mids |-> << >>, built |-> 0, head |-> 0,
         next |-> << >>, stack |-> << >>, trace |-> << >>, res |-> NoRes,
         caught |-> FALSE, calls |-> 0]

NoComb == [mapping |-> << >>, state |-> Undef, type |-> "none",
           res |-> Returned(Undef), done |-> FALSE]

StoreInit ==
  /\ phase = "new"
  /\ currentReducer = "none"
  /\ currentState = Undef
  /\ currentListeners = 1
  /\ nextListeners = 1
  /\ heap = [a \in ArrIds |-> << >>]
  /\ isDispatching = FALSE
  /\ regs = << >>
  /\ stack = << >>
  /\ ret = NoRet
  /\ log = << >>
  /\ preloaded = Undef
  /\ pendingMut = FALSE

NoCmp == [funcs |-> << >>, x |-> 0, fn |-> Identity, out |-> 0, step |-> 0]

\* no call is being observed outside the store
Idle == comb = NoComb /\ cmp = NoCmp

Init == StoreInit /\ Idle /\ mw = NoMw

\* ----------------------------------------------------------- getState
GetStateUnguarded ==
  /\ CanCall
  /\ ret' = Ok("getState", 0, currentState, NoAction)
  /\ UNCHANGED << phase, currentReducer, currentState, currentListeners,
                  nextListeners, heap, isDispatching, regs, stack, log,
                  preloaded, pendingMut, comb, mw, cmp >>

GetState ==
  /\ CanCall
  /\ IF isDispatching
     THEN /\ ret' = Throw("getState", 0, "ReentrantRead", "guard", NoAction)
          /\ stack' = MarkRejected(stack, "ReentrantRead")
     ELSE /\ ret' = Ok("getState", 0, currentState, NoAction)
          /\ stack' = stack
  /\ UNCHANGED << phase, currentReducer, currentState, currentListeners,
                  nextListeners, heap, isDispatching, regs, log, preloaded,
                  pendingMut >>
  /\ UNCHANGED << comb, mw, cmp >>

\* ---------------------------------------------------------- subscribe
Subscribe(listener) ==
  /\ CanCall
  /\ IF listener = NotFn
     THEN /\ ret' = Throw("subscribe", 0, "InvalidListener", "guard", NoAction)
          /\ UNCHANGED << currentListeners, nextListeners, heap, regs, stack,
                          pendingMut >>
     ELSE IF isDispatching
     THEN /\ ret' = Throw("subscribe", 0, "ReentrantSubscribe", "guard", NoAction)
          /\ stack' = MarkRejected(stack, "ReentrantSubscribe")
          /\ UNCHANGED << currentListeners, nextListeners, heap, regs,
                          pendingMut >>
     ELSE /\ regs' = Append(regs, [fn |-> listener, isSubscribed |-> TRUE])
          /\ stack' = MarkMutated(stack)
          /\ pendingMut' = (pendingMut \/ Ctx = "listener")
          /\ SetLists(Push(EnsureCanMutateNextListeners(Lists), listener), stack)
          /\ ret' = Ok("subscribe", 0, Undef, NoAction)
  /\ UNCHANGED << phase, currentReducer, currentState, isDispatching, log,
                  preloaded >>
  /\ UNCHANGED << comb, mw, cmp >>

UnsubscribeUnguarded(r) ==
  /\ CanCall
  /\ r \in 1..Len(regs)
  /\ IF isDispatching
     THEN /\ ret' = Throw("unsubscribe", r, "ReentrantUnsubscribe", "guard", NoAction)
          /\ stack' = MarkRejected(stack, "ReentrantUnsubscribe")
          /\ UNCHANGED << currentListeners, nextListeners, heap, regs,
                          pendingMut >>
     ELSE /\ regs' = [regs EXCEPT ![r].isSubscribed = FALSE]
          /\ stack' = MarkMutated(stack)
          /\ pendingMut' = (pendingMut \/ Ctx = "listener")
          /\ SetLists(Remove(EnsureCanMutateNextListeners(Lists), regs[r].fn),
                      stack)
          /\ ret' = Ok("unsubscribe", r, Undef, NoAction)
  /\ UNCHANGED << phase, currentReducer, currentState, isDispatching, log,
                  preloaded, comb, mw, cmp >>

\* the closure unsubscribe returned by the r-th accepted subscribe call
Unsubscribe(r) ==
  /\ CanCall
  /\ r \in 1..Len(regs)
  /\ IF ~regs[r].isSubscribed
     THEN /\ ret' = Ok("unsubscribe", r, Undef, NoAction)
          /\ UNCHANGED << currentListeners, nextListeners, heap, regs, stack,
                          pendingMut >>
     ELSE IF isDispatching
     THEN /\ ret' = Throw("unsubscribe", r, "ReentrantUnsubscribe", "guard", NoAction)
          /\ stack' = MarkRejected(stack, "ReentrantUnsubscribe")
          /\ UNCHANGED << currentListeners, nextListeners, heap, regs,
                          pendingMut >>
     ELSE /\ regs' = [regs EXCEPT ![r].isSubscribed = FALSE]
          /\ stack' = MarkMutated(stack)
          /\ pendingMut' = (pendingMut \/ Ctx = "listener")
          /\ SetLists(Remove(EnsureCanMutateNextListeners(Lists), regs[r].fn),
                      stack)
          /\ ret' = Ok("unsubscribe", r, Undef, NoAction)
  /\ UNCHANGED << phase, currentReducer, currentState, isDispatching, log,
                  preloaded >>
  /\ UNCHANGED << comb, mw, cmp >>

\* ----------------------------------------------------------- dispatch
\* history: the dispatch calls accepted after construction
Accepted ==
  Len(SelectSeq(log, LAMBDA e : e.type # INIT))
    + (IF stack # << >> /\ Top.kind = "reducer" THEN 1 ELSE 0)

\* the name of the API call that a dispatch frame belongs to
OpOf(via) == CASE via = "replace" -> "replaceReducer"
               [] via = "create" -> "createStore"
               [] OTHER -> "dispatch"

DispatchCallNoTypeCheck(action, via, red) ==
  IF ~action.plain
  THEN /\ ret' = Throw(OpOf(via), 0, "InvalidAction", "guard", action)
       /\ UNCHANGED << isDispatching, stack >>
  ELSE IF isDispatching
  THEN /\ ret' = Throw(OpOf(via), 0, "ReentrantDispatch", "guard", action)
       /\ stack' = MarkRejected(stack, "ReentrantDispatch")
       /\ UNCHANGED isDispatching
  ELSE /\ isDispatching' = TRUE
       /\ stack' = Append(stack, ReducerFrame(via, action, red, currentState))
       /\ ret' = NoRet

DispatchCallBlockedInPass(action, via, red) ==
  IF ~action.plain
  THEN /\ ret' = Throw(OpOf(via), 0, "InvalidAction", "guard", action)
       /\ UNCHANGED << isDispatching, stack >>
  ELSE IF action.type = NoType
  THEN /\ ret' = Throw(OpOf(via), 0, "MissingActionType", "guard", action)
       /\ UNCHANGED << isDispatching, stack >>
  ELSE IF isDispatching \/ stack # << >>
  THEN /\ ret' = Throw(OpOf(via), 0, "ReentrantDispatch", "guard", action)
       /\ stack' = MarkRejected(stack, "ReentrantDispatch")
       /\ UNCHANGED isDispatching
  ELSE /\ isDispatching' = TRUE
       /\ stack' = Append(stack, ReducerFrame(via, action, red, currentState))
       /\ ret' = NoRet

(* dispatch(action) up to the call of the reducer, lines 137-162: called   *)
(* by the application (via "app") and by replaceReducer, with the reducer  *)
(* red in currentReducer.                                                  *)
DispatchCall(action, via, red) ==
  IF ~action.plain
  THEN /\ ret' = Throw(OpOf(via), 0, "InvalidAction", "guard", action)
       /\ UNCHANGED << isDispatching, stack >>
  ELSE IF action.type = NoType
  THEN /\ ret' = Throw(OpOf(via), 0, "MissingActionType", "guard", action)
       /\ UNCHANGED << isDispatching, stack >>
  ELSE IF isDispatching
  THEN /\ ret' = Throw(OpOf(via), 0, "ReentrantDispatch", "guard", action)
       /\ stack' = MarkRejected(stack, "ReentrantDispatch")
       /\ UNCHANGED isDispatching
  ELSE /\ isDispatching' = TRUE
       /\ stack' = Append(stack, ReducerFrame(via, action, red, currentState))
       /\ ret' = NoRet

Dispatch(action) ==
  /\ CanCall
  /\ DispatchCall(action, "app", currentReducer)
  /\ UNCHANGED << phase, currentReducer, currentState, currentListeners,
                  nextListeners, heap, regs, log, preloaded, pendingMut >>
  /\ UNCHANGED << comb, mw, cmp >>

\* currentReducer(currentState, action)
CallReducerWithoutState(red, state, type) == Reduce(red, Undef, type)

CallReducer(red, state, type) == Reduce(red, state, type)

\* finally { isDispatching = false }: whether the reducer threw or not
FinallyOnReturnOnly(threw) == threw

Finally(threw) == FALSE

LogEntry(f, ok) == [red |-> f.red, type |-> f.action.type, ok |-> ok]

ReducerReturnSkipsUnchanged ==
  /\ stack # << >> /\ Top.kind = "reducer"
  /\ LET res == CallReducer(Top.red, currentState, Top.action.type)
         L == IF res.val = currentState THEN Lists ELSE SnapshotListeners(Lists)
         frame == [Top EXCEPT !.kind = "notify",
                              !.listeners = L.cur,
                              !.i = IF res.val = currentState
                                    THEN Len(heap[L.cur]) ELSE 0,
                              !.snap = heap[L.cur],
                              !.live = LiveFns(regs),
                              !.latest = LatestFns(regs),
                              !.afterMut = pendingMut]
         stk == [stack EXCEPT ![Len(stack)] = frame]
     IN  /\ res.ok
         /\ currentState' = res.val
         /\ isDispatching' = Finally(FALSE)
         /\ stack' = stk
         /\ SetLists(L, stk)
         /\ log' = Append(log, LogEntry(Top, TRUE))
  /\ pendingMut' = FALSE
  /\ ret' = NoRet
  /\ UNCHANGED << phase, currentReducer, regs, preloaded >>
  /\ UNCHANGED << comb, mw, cmp >>

(* The reducer returns: currentState is assigned, the finally block resets *)
(* isDispatching and the listeners are snapshotted, lines 162-168.         *)
ReducerReturn ==
  /\ stack # << >> /\ Top.kind = "reducer"
  /\ LET res == CallReducer(Top.red, currentState, Top.action.type)
         L == SnapshotListeners(Lists)
         frame == [Top EXCEPT !.kind = "notify",
                              !.listeners = L.cur,
                              !.i = 0,
                              !.snap = heap[L.cur],
                              !.live = LiveFns(regs),
                              !.latest = LatestFns(regs),
                              !.afterMut = pendingMut]
         stk == [stack EXCEPT ![Len(stack)] = frame]
     IN  /\ res.ok
         /\ currentState' = res.val
         /\ isDispatching' = Finally(FALSE)
         /\ stack' = stk
         /\ SetLists(L, stk)
         /\ log' = Append(log, LogEntry(Top, TRUE))
  /\ pendingMut' = FALSE
  /\ ret' = NoRet
  /\ UNCHANGED << phase, currentReducer, regs, preloaded >>
  /\ UNCHANGED << comb, mw, cmp >>

ReducerThrowKeepsPartial ==
  /\ stack # << >> /\ Top.kind = "reducer"
  /\ LET res == CallReducer(Top.red, currentState, Top.action.type)
         stk == Pop(stack)
     IN  /\ ~res.ok \/ Top.rejected # "none"
         /\ isDispatching' = Finally(TRUE)
         /\ stack' = stk
         /\ ret' = Throw(OpOf(Top.via), 0,
                         IF res.ok THEN Top.rejected ELSE res.err, "reducer",
                         Top.action)
         /\ phase' = IF Top.via = "create" THEN "failed" ELSE phase
         /\ log' = Append(log, LogEntry(Top, FALSE))
         /\ currentState' = IF res.ok \/ res.val.t # "obj" THEN currentState
                            ELSE res.val
  /\ UNCHANGED << currentReducer, currentListeners, nextListeners, heap, regs,
                  preloaded, pendingMut, comb, mw, cmp >>

(* The reducer throws (its own error, or a re-entrancy error it did not    *)
(* catch): the finally block resets isDispatching and the error leaves     *)
(* dispatch, lines 160-165.                                                *)
ReducerThrow ==
  /\ stack # << >> /\ Top.kind = "reducer"
  /\ LET res == CallReducer(Top.red, currentState, Top.action.type)
         stk == Pop(stack)
     IN  /\ ~res.ok \/ Top.rejected # "none"
         /\ isDispatching' = Finally(TRUE)
         /\ stack' = stk
         /\ ret' = Throw(OpOf(Top.via), 0,
                         IF res.ok THEN Top.rejected ELSE res.err, "reducer",
                         Top.action)
         /\ phase' = IF Top.via = "create" THEN "failed" ELSE phase
         /\ log' = Append(log, LogEntry(Top, FALSE))
  /\ UNCHANGED << currentReducer, currentState, currentListeners,
                  nextListeners, heap, regs, preloaded, pendingMut >>
  /\ UNCHANGED << comb, mw, cmp >>

NotifyStepLiveList ==
  /\ stack # << >> /\ Top.kind = "notify"
  /\ Top.i < Len(heap[nextListeners])
  /\ LET listener == heap[nextListeners][Top.i + 1]
     IN  stack' = Append([stack EXCEPT ![Len(stack)].called = Append(@, listener)],
                         ListenerFrame(listener))
  /\ ret' = NoRet
  /\ UNCHANGED << phase, currentReducer, currentState, currentListeners,
                  nextListeners, heap, isDispatching, regs, log, preloaded,
                  pendingMut >>
  /\ UNCHANGED << comb, mw, cmp >>

\* the loop of dispatch calls the next listener, lines 169-171
NotifyStep ==
  /\ stack # << >> /\ Top.kind = "notify"
  /\ Top.i < Len(heap[Top.listeners])
  /\ LET listener == heap[Top.listeners][Top.i + 1]
     IN  stack' = Append([stack EXCEPT ![Len(stack)].called = Append(@, listener)],
                         ListenerFrame(listener))
  /\ ret' = NoRet
  /\ UNCHANGED << phase, currentReducer, currentState, currentListeners,
                  nextListeners, heap, isDispatching, regs, log, preloaded,
                  pendingMut >>
  /\ UNCHANGED << comb, mw, cmp >>

\* the running listener returns and the loop goes on (i++)
ListenerReturn ==
  /\ stack # << >> /\ Top.kind = "listener"
  /\ stack' = [Pop(stack) EXCEPT ![Len(stack) - 1].i = @ + 1]
  /\ ret' = NoRet
  /\ UNCHANGED << phase, currentReducer, currentState, currentListeners,
                  nextListeners, heap, isDispatching, regs, log, preloaded,
                  pendingMut >>
  /\ UNCHANGED << comb, mw, cmp >>

ListenerThrowRollsBack ==
  /\ stack # << >> /\ Top.kind = "listener"
  /\ LET stk == Pop(Pop(stack))
         d == stack[Len(stack) - 1]
     IN  /\ stack' = stk
         /\ ret' = Throw(OpOf(d.via), 0, "ListenerError", "listener", d.action)
         /\ heap' = Gc(heap, currentListeners, nextListeners, stk)
         /\ currentState' = d.pre
  /\ UNCHANGED << phase, currentReducer, currentListeners,
                  nextListeners, isDispatching, regs, log, preloaded,
                  pendingMut >>
  /\ UNCHANGED << comb, mw, cmp >>

\* the running listener throws: nothing in dispatch catches the error
ListenerThrow ==
  /\ stack # << >> /\ Top.kind = "listener"
  /\ LET stk == Pop(Pop(stack))
         d == stack[Len(stack) - 1]
     IN  /\ stack' = stk
         /\ ret' = Throw(OpOf(d.via), 0, "ListenerError", "listener", d.action)
         /\ heap' = Gc(heap, currentListeners, nextListeners, stk)
  /\ UNCHANGED << phase, currentReducer, currentState, currentListeners,
                  nextListeners, isDispatching, regs, log, preloaded,
                  pendingMut >>
  /\ UNCHANGED << comb, mw, cmp >>

\* return action, line 174: what the call that made the frame fr gets
\* back (replaceReducer and createStore do not pass it on)
ReturnsNothing(fr) == NoAction

Returns(fr) == IF fr.via = "app" THEN fr.action ELSE NoAction

\* the loop is over: dispatch returns the action, line 174
DispatchReturn ==
  /\ stack # << >> /\ Top.kind = "notify"
  /\ Top.i >= Len(heap[Top.listeners])
  /\ LET stk == Pop(stack)
     IN  /\ stack' = stk
         /\ ret' = Ok(OpOf(Top.via), 0, Undef, Returns(Top))
         /\ heap' = Gc(heap, currentListeners, nextListeners, stk)
         /\ phase' = IF Top.via = "create" THEN "ready" ELSE phase
  /\ UNCHANGED << currentReducer, currentState, currentListeners,
                  nextListeners, isDispatching, regs, log, preloaded,
                  pendingMut >>
  /\ UNCHANGED << comb, mw, cmp >>

\* ----------------------------------------------------- replaceReducer
ReplaceReducerResetsState(nextReducer) ==
  /\ CanCall
  /\ IF nextReducer = NotFn
     THEN /\ ret' = Throw("replaceReducer", 0, "InvalidReducer", "guard", NoAction)
          /\ UNCHANGED << currentReducer, currentState, isDispatching, stack >>
     ELSE /\ currentReducer' = nextReducer
          /\ currentState' = Undef
          /\ DispatchCall(Action(TRUE, REPLACE), "replace", nextReducer)
  /\ UNCHANGED << phase, currentListeners, nextListeners, heap, regs, log,
                  preloaded, pendingMut, comb, mw, cmp >>

ReplaceReducer(nextReducer) ==
  /\ CanCall
  /\ IF nextReducer = NotFn
     THEN /\ ret' = Throw("replaceReducer", 0, "InvalidReducer", "guard", NoAction)
          /\ UNCHANGED << currentReducer, isDispatching, stack >>
     ELSE /\ currentReducer' = nextReducer
          /\ DispatchCall(Action(TRUE, REPLACE), "replace", nextReducer)
  /\ UNCHANGED << phase, currentState, currentListeners, nextListeners, heap,
                  regs, log, preloaded, pendingMut >>
  /\ UNCHANGED << comb, mw, cmp >>

\* -------------------------------------------------------- createStore
(* createStore(reducer, preloadedState) without an enhancer, lines 36-44   *)
(* and 236: the store's variables are set and INIT is dispatched.          *)
CreateStore(reducer, preloadedState) ==
  /\ phase = "new"
  /\ preloaded' = preloadedState
  /\ IF reducer = NotFn
     THEN /\ ret' = Throw("createStore", 0, "InvalidReducer", "guard", NoAction)
          /\ phase' = "failed"
          /\ UNCHANGED << currentReducer, currentState, isDispatching, stack >>
     ELSE /\ currentReducer' = reducer
          /\ currentState' = preloadedState
          /\ isDispatching' = TRUE
          /\ stack' = << ReducerFrame("create", Action(TRUE, INIT), reducer,
                                      preloadedState) >>
          /\ phase' = "creating"
          /\ ret' = NoRet
  /\ UNCHANGED << currentListeners, nextListeners, heap, regs, log,
                  pendingMut >>
  /\ UNCHANGED << comb, mw, cmp >>

\* --------------------------------------------------------------- Next
\* the bounds of the model: registrations made, dispatch calls accepted
MaySubscribe(listener, max) ==
  listener = NotFn \/ isDispatching \/ Len(regs) < max
MayDispatch(action, max) ==
  ~action.plain \/ action.type = NoType \/ isDispatching \/ Accepted < max

\* the steps the store takes between the calls of application code
Internal ==
  \/ ReducerReturn
  \/ ReducerThrow
  \/ NotifyStep
  \/ ListenerReturn
  \/ ListenerThrow
  \/ DispatchReturn

(* Spec: a store on the reducer counter; the application subscribes and    *)
(* unsubscribes the listeners f and g, reads the state and dispatches,     *)
(* from its own code, from the reducer and from the listeners.             *)
Next ==
  \/ CreateStore("counter", Undef)
  \/ GetState
  \/ \E f \in Fns : MaySubscribe(f, MaxRegs) /\ Subscribe(f)
  \/ \E r \in 1..MaxRegs : Unsubscribe(r)
  \/ MayDispatch(Action(TRUE, "INC"), MaxDispatches)
       /\ Dispatch(Action(TRUE, "INC"))
  \/ Internal

Spec == Init /\ [][Next]_vars

(* SpecState: a store on any of the reducers, every kind of action and     *)
(* replaceReducer, with the one listener f.                                *)
NextState ==
  \/ \E c \in CreateArgs : CreateStore(c[1], c[2])
  \/ GetState
  \/ \E f \in {"f", NotFn} : MaySubscribe(f, MaxRegsState) /\ Subscribe(f)
  \/ \E r \in 1..MaxRegsState : Unsubscribe(r)
  \/ \E a \in AppActions : MayDispatch(a, MaxDispatches) /\ Dispatch(a)
  \/ \E r \in ReplaceArgs :
       MayDispatch(Action(TRUE, REPLACE), MaxDispatches) /\ ReplaceReducer(r)
  \/ Internal

SpecState == Init /\ [][NextState]_vars

(* SpecCombine: one call combination(state, action) of the reducer         *)
(* composed from a mapping, for each mapping, state and action type.       *)
CombineStates ==
  {Undef, Num(5)} \cup
  { Obj(1, [NoProps EXCEPT !["a"] = a, !["b"] = b, !["c"] = c]) :
      a \in {AbsentSV, BoxSV(2, 0), BoxSV(2, 1)},
      b \in {AbsentSV, NumSV(0), NumSV(1)},
      c \in {AbsentSV, NumSV(7)} }

CombineTypes == {INIT, REPLACE, PROBE, "INC", "NOOP", "BAD", "TOUCH"}

InitCombine ==
  /\ StoreInit /\ cmp = NoCmp /\ mw = NoMw
  /\ comb \in { [mapping |-> mp, state |-> st, type |-> ty,
                 res |-> Returned(Undef), done |-> FALSE] :
                  mp \in Mappings, st \in CombineStates, ty \in CombineTypes }

CallCombination ==
  /\ ~comb.done
  /\ comb' = [comb EXCEPT
                !.res = Combination(CombineReducers(comb.mapping), comb.state,
                                    comb.type),
                !.done = TRUE]
  /\ UNCHANGED << phase, currentReducer, currentState, currentListeners,
                  nextListeners, heap, isDispatching, regs, stack, ret, log,
                  preloaded, pendingMut, mw, cmp >>

NextCombine == CallCombination

SpecCombine == InitCombine /\ [][NextCombine]_vars

(* SpecCompose: compose is called on a list of functions and its result   *)
(* is called on a number.                                                  *)
MaxFuncs == 3
FuncLists == UNION {[1..n -> {PrimFn(f) : f \in Prims}] : n \in 0..MaxFuncs}
Args == -2..2

InitCompose ==
  /\ StoreInit /\ comb = NoComb /\ mw = NoMw
  /\ cmp \in {[NoCmp EXCEPT !.funcs = fs, !.x = x] : fs \in FuncLists, x \in Args}

CallCompose ==
  /\ cmp.step = 0
  /\ cmp' = [cmp EXCEPT !.fn = Compose(cmp.funcs), !.step = 1]
  /\ UNCHANGED << phase, currentReducer, currentState, currentListeners,
                  nextListeners, heap, isDispatching, regs, stack, ret, log,
                  preloaded, pendingMut, comb, mw >>

CallComposed ==
  /\ cmp.step = 1
  /\ cmp' = [cmp EXCEPT !.out = CallFn(cmp.fn, cmp.x), !.step = 2]
  /\ UNCHANGED << phase, currentReducer, currentState, currentListeners,
                  nextListeners, heap, isDispatching, regs, stack, ret, log,
                  preloaded, pendingMut, comb, mw >>

NextCompose == CallCompose \/ CallComposed

SpecCompose == InitCompose /\ [][NextCompose]_vars

\* ---------------------------------------------------- applyMiddleware
(* The middleware of the application, by what the factory                  *)
(* (storeAPI => next => action => ...) and the handler do:                 *)
(*   logA, logB  the handler logs "a" ("b") and returns next(action);      *)
(*   block       the handler returns without calling next for SKIP, and    *)
(*               returns next(action) otherwise;                           *)
(*   again       the handler calls storeAPI.dispatch({type: NOOP}) for     *)
(*               INC, then returns next(action);                           *)
(*   eager       the factory calls storeAPI.dispatch({type: INC});         *)
(*   eagerCatch  the factory does the same in a try/catch; the handler is  *)
(*               that of again.                                            *)
Middlewares == {"logA", "logB", "block", "again", "eager", "eagerCatch"}
MaxMids == 2        \* middleware given to applyMiddleware
MaxMwCalls == 2     \* dispatch calls of the application on the enhanced store
MwTypes == {"INC", "NOOP", "SKIP", "BAD"}
MidLists == UNION {[1..n -> Middlewares] : n \in 0..MaxMids}
TagOf(k) == CASE k = "logA" -> "a" [] k = "logB" -> "b" [] OTHER -> "-"

\* the targets of a call: the throwing dispatch of line 208, the dispatch
\* of the base store, or the handler of middleware i >= 1
Stub == -1
Base == 0

\* an event of the trace: handler idx saw an action, the base dispatch was
\* called, the throwing dispatch was called
Event(ev, idx, tag, type) == [ev |-> ev, idx |-> idx, tag |-> tag, type |-> type]

\* a call of target idx with an action of this type; stage "call": the
\* callee has not run yet, "sub": it waits for storeAPI.dispatch, "fwd": it
\* waits for next(action), "base": the dispatch of the base store runs
MwFrame(idx, type, m) ==
  [idx |-> idx, type |-> type, stage |-> "call", pre |-> currentState,
   at |-> Len(m.trace), passes |-> Len(log)]

MwTop == mw.stack[Len(mw.stack)]
MwPop(m) == [m EXCEPT !.stack = SubSeq(@, 1, Len(@) - 1)]
MwPush(m, fr) == [m EXCEPT !.stack = Append(@, fr)]
MwSetStage(m, st) == [m EXCEPT !.stack[Len(m.stack)].stage = st]
MwLog(m, e) == [m EXCEPT !.trace = Append(@, e)]

\* middlewareAPI.dispatch, (...args) => dispatch(...args): the value of
\* the variable dispatch at the time of the call, lines 208 and 222
DispatchVarBase(m) == IF m.phase = "ready" THEN Base ELSE Stub

DispatchVar(m) == IF m.phase = "ready" THEN m.head ELSE Stub

\* compose(...chain)(store.dispatch): the links of the composed function
\* are applied to store.dispatch from the last to the first; every link
\* returns its handler, whose next is what the link was applied to
RECURSIVE Wire(_, _)
Wire(prog, n) ==
  IF prog = << >> THEN [head |-> Base, next |-> [i \in 1..n |-> Base]]
  ELSE LET inner == Wire(Tail(prog), n)
       IN  [head |-> prog[1],
            next |-> [inner.next EXCEPT ![prog[1]] = inner.head]]

Chain(n) == [i \in 1..n |-> [id |-> "link", prog |-> << i >>]]

StoreVars == << phase, currentReducer, currentState, currentListeners,
               nextListeners, heap, isDispatching, regs, stack, ret, log,
               preloaded, pendingMut >>

\* the application is running, outside every call of the store
AppRuns == phase = "ready" /\ stack = << >> /\ mw.stack = << >>

\* applyMiddleware(...middlewares)(createStore), lines 203-204
ApplyMiddleware(middlewares) ==
  /\ mw.phase = "none" /\ phase = "new"
  /\ mw' = [mw EXCEPT !.phase = "applied", !.mids = middlewares]
  /\ UNCHANGED << StoreVars, comb, cmp >>

\* const store = createStore(...args), line 205
MwCreateStore == mw.phase = "applied" /\ CreateStore("counter", Undef)

\* middlewares.map(middleware => middleware(middlewareAPI)), line 220: the
\* factory of the next middleware is invoked
MwFactory ==
  /\ mw.phase = "applied" /\ phase = "ready" /\ stack = << >>
  /\ mw.built < Len(mw.mids)
  /\ LET k == mw.mids[mw.built + 1]
         hit == MwLog(mw, Event("stub", mw.built + 1, "-", "INC"))
     IN  mw' =
           IF k \in {"eager", "eagerCatch"} /\ DispatchVar(mw) = Stub
           THEN IF k = "eager"
                THEN [hit EXCEPT !.phase = "failed",
                       !.res = Raised("DispatchDuringMiddlewareConstruction")]
                ELSE [hit EXCEPT !.caught = TRUE, !.built = @ + 1]
           ELSE [mw EXCEPT !.built = @ + 1]
  /\ UNCHANGED << StoreVars, comb, cmp >>

\* dispatch = compose(...chain)(store.dispatch), line 222
MwCompose ==
  /\ mw.phase = "applied" /\ phase = "ready" /\ stack = << >>
  /\ mw.built = Len(mw.mids)
  /\ LET w == Wire(Compose(Chain(Len(mw.mids))).prog, Len(mw.mids))
     IN  mw' = [mw EXCEPT !.phase = "ready", !.head = w.head, !.next = w.next]
  /\ UNCHANGED << StoreVars, comb, cmp >>

\* the application calls dispatch of the enhanced store, line 227
MwDispatch(type) ==
  /\ mw.phase = "ready" /\ AppRuns
  /\ mw.calls < MaxMwCalls
  /\ mw' = [MwPush(mw, MwFrame(mw.head, type, mw)) EXCEPT
              !.calls = @ + 1, !.res = NoRes]
  /\ UNCHANGED << StoreVars, comb, cmp >>

\* the handler of a middleware is called and runs to its first call, or
\* to its end
MwEnter ==
  /\ mw.stack # << >> /\ MwTop.stage = "call" /\ MwTop.idx >= 1
  /\ LET i == MwTop.idx
         k == mw.mids[i]
         m == MwLog(mw, Event("mw", i, TagOf(k), MwTop.type))
     IN  mw' =
           IF k = "block" /\ MwTop.type = "SKIP"
           THEN [MwPop(m) EXCEPT !.res = Value("undefined", TRUE)]
           ELSE IF k \in {"again", "eagerCatch"} /\ MwTop.type = "INC"
           THEN IF DispatchVar(m) = Stub
                THEN [MwPop(m) EXCEPT
                       !.res = Raised("DispatchDuringMiddlewareConstruction")]
                ELSE MwPush(MwSetStage(m, "sub"),
                            MwFrame(DispatchVar(m), "NOOP", m))
           ELSE MwPush(MwSetStage(m, "fwd"), MwFrame(m.next[i], MwTop.type, m))
  /\ UNCHANGED << StoreVars, comb, cmp >>

\* the call reaches dispatch of the base store, createStore.js line 137
MwBase ==
  /\ mw.stack # << >> /\ MwTop.stage = "call" /\ MwTop.idx = Base
  /\ stack = << >>
  /\ DispatchCall(Action(TRUE, MwTop.type), "app", currentReducer)
  /\ mw' = MwLog(MwSetStage(mw, "base"), Event("base", Base, "-", MwTop.type))
  /\ UNCHANGED << phase, currentReducer, currentState, currentListeners,
                  nextListeners, heap, regs, log, preloaded, pendingMut,
                  comb, cmp >>

\* dispatch of the base store has returned or thrown
MwBaseDone ==
  /\ mw.stack # << >> /\ MwTop.stage = "base"
  /\ stack = << >>
  /\ mw' = [MwPop(mw) EXCEPT
              !.res = IF ret.kind = "ok" THEN Value(ret.act.type, FALSE)
                      ELSE Raised(ret.err)]
  /\ UNCHANGED << StoreVars, comb, cmp >>

\* the call a handler made has ended: an error goes through the handler,
\* a handler that waited for storeAPI.dispatch calls next(action), and one
\* that waited for next(action) returns its result
MwResume ==
  /\ mw.stack # << >> /\ MwTop.stage \in {"sub", "fwd"}
  /\ mw' = IF mw.res.kind = "throw" \/ MwTop.stage = "fwd"
           THEN MwPop(mw)
           ELSE [MwPush(MwSetStage(mw, "fwd"),
                        MwFrame(mw.next[MwTop.idx], MwTop.type, mw))
                   EXCEPT !.res = NoRes]
  /\ UNCHANGED << StoreVars, comb, cmp >>

(* SpecMw: a store on the reducer counter enhanced by applyMiddleware; the *)
(* application subscribes the listener f and dispatches on the enhanced    *)
(* store.                                                                  *)
MwSubscribe ==
  /\ mw.phase = "ready" /\ AppRuns /\ MaySubscribe("f", MaxRegsState)
  /\ Subscribe("f")

NextMw ==
  \/ \E ms \in MidLists : ApplyMiddleware(ms)
  \/ MwCreateStore
  \/ MwFactory
  \/ MwCompose
  \/ MwSubscribe
  \/ \E ty \in MwTypes : MwDispatch(ty)
  \/ MwEnter
  \/ MwBase
  \/ MwBaseDone
  \/ MwResume
  \/ Internal

SpecMw == Init /\ [][NextMw]_vars

(* SpecShape: a mapping is composed; the composed reducer is called once   *)
(* by the application and a store is built on it, in either order.         *)
NextShape ==
  \/ CallCombination
  \/ CreateStore(ComposedFrom(comb.mapping), comb.state)
  \/ ReducerReturn
  \/ ReducerThrow
  \/ DispatchReturn

SpecShape == InitCombine /\ [][NextShape]_vars

\* ================================================================ claims
NotifyFrames == {j \in 1..Len(stack) : stack[j].kind = "notify"}

\* the loop of a dispatch frame has called every listener of its array
PassComplete(fr) == fr.i >= Len(heap[fr.listeners])

\* how many times f occurs in the sequence s
Count(s, f) == Cardinality({j \in 1..Len(s) : s[j] = f})
SameBag(s, t) == \A f \in Fns : Count(s, f) = Count(t, f)

(* C1 as stated: a notification pass calls the listeners registered when   *)
(* the pass began, each registration once, in the order of registration.   *)
C1_RegistrationOrder ==
  \A j \in NotifyFrames :
    /\ stack[j].called = SubSeq(stack[j].live, 1, Len(stack[j].called))
    /\ PassComplete(stack[j]) => stack[j].called = stack[j].live

(* C1, amended: whatever the listeners subscribe or unsubscribe during a   *)
(* pass, the pass walks the listener array as it stood when the pass       *)
(* began: the array it iterates never changes, the listeners called so far *)
(* are a prefix of it and a completed pass has called exactly its entries, *)
(* one per registration subscribed when the pass began.  The order is the  *)
(* order of the array: registration order, except that unsubscribing a     *)
(* registration of a function that is registered more than once removes    *)
(* the first occurrence of the function.                                   *)
C1_SnapshotIsolation ==
  \A j \in NotifyFrames :
    LET fr == stack[j] IN
    /\ heap[fr.listeners] = fr.snap
    /\ fr.called = SubSeq(fr.snap, 1, Len(fr.called))
    /\ Len(fr.called) \in {fr.i, fr.i + 1}
    /\ PassComplete(fr) => fr.called = fr.snap
    /\ SameBag(fr.snap, fr.live) /\ Len(fr.snap) = Len(fr.live)
    /\ fr.snap = fr.latest

\* a pass that is complete although a listener changed the membership
\* while it ran
C1_Witness ==
  \E j \in NotifyFrames :
    /\ stack[j].mutated
    /\ PassComplete(stack[j])
    /\ Len(stack[j].snap) >= 2
    /\ stack[j].called = stack[j].snap
    /\ heap[nextListeners] # stack[j].snap

(* C2: a membership change made by a listener during a pass is in effect   *)
(* from the next dispatch on: nextListeners always holds one entry for     *)
(* every subscribed registration and none for any other, and every pass    *)
(* begins with a snapshot of it, so a registration unsubscribed during a   *)
(* pass is in no later snapshot and one subscribed during a pass is in     *)
(* every later snapshot until it is unsubscribed.                          *)
C2_NextDispatch ==
  /\ SameBag(heap[nextListeners], LiveFns(regs))
  /\ Len(heap[nextListeners]) = Len(LiveFns(regs))
  /\ \A j \in NotifyFrames :
       /\ SameBag(stack[j].snap, stack[j].live)
       /\ Len(stack[j].snap) = Len(stack[j].live)
       /\ (j = Len(stack) /\ stack[j].called = << >> /\ stack[j].i = 0)
            => stack[j].snap = heap[nextListeners]

\* a pass that began after a listener changed the membership during an
\* earlier pass, and that has called the listeners of its snapshot
C2_Witness ==
  \E j \in NotifyFrames :
    /\ stack[j].afterMut
    /\ PassComplete(stack[j])
    /\ stack[j].snap # << >>
    /\ stack[j].called = stack[j].snap

\* ---------------------------------------------------------------- C3
ReentrantErrors == {"ReentrantRead", "ReentrantSubscribe",
                    "ReentrantUnsubscribe", "ReentrantDispatch"}
InReducer == stack # << >> /\ Top.kind = "reducer"
\* the call that just ended was rejected by a re-entrancy check
RejectedAsReentrant(r) ==
  r.kind = "throw" /\ r.at = "guard" /\ r.err \in ReentrantErrors

(* C3: isDispatching is true exactly while a reducer call made by dispatch *)
(* is in flight, so it is false once the outermost dispatch has exited,    *)
(* however it exited; and a call is rejected as re-entrant only when it is *)
(* made by a running reducer, also after a dispatch whose reducer threw.   *)
C3_FlagScoped ==
  /\ isDispatching <=> InReducer
  /\ stack = << >> => ~isDispatching
  /\ RejectedAsReentrant(ret) => InReducer

\* after a dispatch whose reducer threw, a later dispatch ran to its end
C3_Witness ==
  /\ stack = << >>
  /\ \E j \in 1..Len(log) : ~log[j].ok
  /\ ret.op = "dispatch" /\ ret.kind = "ok"

\* ---------------------------------------------------------------- C4
(* C4: while the reducer runs the state is the state before the dispatch,  *)
(* and when the reducer throws, dispatch ends at once with that error:     *)
(* the state is still the one before the dispatch, the flag is released    *)
(* and the dispatch never reaches its notification loop.                   *)
C4_NoPartialMutation ==
  /\ [](InReducer => currentState = Top.pre)
  /\ [][ (InReducer /\ Len(stack') < Len(stack)) =>
           /\ ret'.kind = "throw" /\ ret'.at = "reducer"
           /\ ret'.op = OpOf(Top.via)
           /\ currentState' = Top.pre
           /\ stack' = Pop(stack)
           /\ ~isDispatching'
           /\ UNCHANGED << currentListeners, nextListeners, heap, regs >> ]_vars

\* a composed reducer faulted on key b after key a had produced a new
\* value, with a listener subscribed
C4_Witness ==
  /\ ret.kind = "throw" /\ ret.err = "ReducerReturnedUndefined"
  /\ ret.op = "dispatch"
  /\ currentState.t = "obj"
  /\ LiveFns(regs) # << >>
  /\ \E j \in 1..Len(log) : ~log[j].ok /\ log[j].type = "BAD"

\* ---------------------------------------------------------------- C5
(* C5: while a reducer runs, getState, subscribe(fn), the unsubscribe of a *)
(* subscribed registration and dispatch(valid action) each throw their     *)
(* re-entrancy error and leave the state, the listener lists, the          *)
(* registrations and the flag as they are; no call made by the reducer     *)
(* starts a dispatch; and when the reducer returns after such a rejection, *)
(* the state becomes what it returned and the notification pass begins.    *)
C5_ReentrantRejected ==
  /\ [][ (InReducer /\ phase = "ready") => Len(stack') <= Len(stack) ]_vars
  /\ [][ (InReducer /\ phase = "ready" /\ Len(stack') = Len(stack)
            /\ stack'[Len(stack)].kind = "reducer") =>
           /\ ret'.op = "getState" =>
                ret'.kind = "throw" /\ ret'.err = "ReentrantRead"
           /\ (ret'.op = "subscribe" /\ ret'.err # "InvalidListener") =>
                ret'.kind = "throw" /\ ret'.err = "ReentrantSubscribe"
           /\ (ret'.op = "unsubscribe" /\ regs[ret'.arg].isSubscribed) =>
                ret'.kind = "throw" /\ ret'.err = "ReentrantUnsubscribe"
           /\ (ret'.op = "dispatch" /\ ret'.act.plain /\ ret'.act.type # NoType) =>
                ret'.kind = "throw" /\ ret'.err = "ReentrantDispatch"
           /\ ret'.op \in {"getState", "subscribe", "unsubscribe", "dispatch"} =>
                UNCHANGED << currentState, currentReducer, currentListeners,
                             nextListeners, heap, regs, isDispatching >> ]_vars
  /\ [][ (InReducer /\ Top.rejected # "none" /\ Len(stack') = Len(stack)
            /\ stack'[Len(stack)].kind = "notify") =>
           /\ currentState' = Reduce(Top.red, Top.pre, Top.action.type).val
           /\ ~isDispatching'
           /\ stack'[Len(stack)].snap = heap[nextListeners]
           /\ stack'[Len(stack)].i = 0 ]_vars
  /\ [](\A j \in NotifyFrames :
          (stack[j].rejected # "none" /\ PassComplete(stack[j]))
            => stack[j].called = stack[j].snap)

\* the reducer had a re-entrant call rejected, returned, and the listener
\* has been notified
C5_Witness ==
  \E j \in NotifyFrames :
    /\ stack[j].rejected # "none"
    /\ PassComplete(stack[j])
    /\ stack[j].called # << >>
    /\ currentState # stack[j].pre

\* ---------------------------------------------------------------- C6
\* frame j is a dispatch (its reducer call or its notification loop) that
\* was started by the listener running in frame j - 1
NestedIn(j) ==
  /\ j \in 2..Len(stack)
  /\ stack[j - 1].kind = "listener"
  /\ stack[j].kind \in {"reducer", "notify"}

(* C6 as stated: a dispatch call made by a listener during a notification  *)
(* pass is rejected, so no dispatch ever runs on behalf of a listener.     *)
C6_DispatchBlockedInPass == \A j \in 1..Len(stack) : ~NestedIn(j)

(* C6 as amended: during a notification pass the flag is false, no call a  *)
(* listener makes is rejected as re-entrant (subscribe and unsubscribe     *)
(* succeed), and a dispatch call made by a listener is accepted: it calls  *)
(* the reducer on the current state and commits what the reducer returns.  *)
C6_ListenerMayDispatch ==
  /\ [](Ctx \in {"listener", "notify"} => ~isDispatching)
  /\ [][ Ctx = "listener" =>
           /\ ~RejectedAsReentrant(ret')
           /\ ret'.op \in {"subscribe", "unsubscribe"} => ret'.kind = "ok" ]_vars
  /\ [][ (Ctx = "listener" /\ Len(stack') = Len(stack) + 1) =>
           /\ stack'[Len(stack')].kind = "reducer"
           /\ stack'[Len(stack')].pre = currentState
           /\ stack'[Len(stack')].red = currentReducer
           /\ isDispatching' ]_vars
  /\ [][ (NestedIn(Len(stack)) /\ Top.kind = "reducer"
            /\ Len(stack') = Len(stack)
            /\ stack'[Len(stack)].kind = "notify") =>
           /\ Reduce(Top.red, Top.pre, Top.action.type).ok
           /\ currentState' = Reduce(Top.red, Top.pre, Top.action.type).val
           /\ stack'[Len(stack)].snap = heap[nextListeners] ]_vars

\* a listener dispatched INC during the pass of an INC dispatch: the
\* nested dispatch ran the reducer (the counter is 2) and notifies
C6_Witness ==
  /\ NestedIn(Len(stack))
  /\ Top.kind = "notify" /\ Top.called # << >>
  /\ Top.pre = Num(1)
  /\ currentState = Num(2)

\* ---------------------------------------------------------------- C7
\* the reducer folded over the entries j.. of the dispatch log, from acc;
\* a dispatch whose reducer threw contributes nothing
RECURSIVE Fold(_, _, _)
Fold(acc, lg, j) ==
  IF j > Len(lg) THEN acc
  ELSE Fold(IF lg[j].ok THEN Reduce(lg[j].red, acc, lg[j].type).val ELSE acc,
            lg, j + 1)

\* no replaceReducer call has had an effect: every dispatch so far ran the
\* reducer given to createStore, which is still the current one
NoReplace ==
  /\ \A j \in 1..Len(log) : log[j].red = log[1].red /\ log[j].type # REPLACE
  /\ log # << >> => currentReducer = log[1].red
  /\ \A j \in 1..Len(stack) : stack[j].via # "replace"

\* every dispatch so far was successful: its reducer returned
AllOk == \A j \in 1..Len(log) : log[j].ok

\* the types of the dispatches of the log
LogTypes == [j \in 1..Len(log) |-> log[j].type]

(* C7: with no replaceReducer, the state is the fold of the reducer over   *)
(* INIT and the dispatched actions, starting from preloadedState (after    *)
(* createStore: reducer(preloadedState, INIT)); the state changes only     *)
(* when the reducer of a dispatch returns (getState, subscribe and         *)
(* unsubscribe leave it as it is); and for the reducer counter without a   *)
(* preloaded state it is 0 after creation, 1 after INC and 1 after a       *)
(* following NOOP.                                                          *)
C7_StateIsFold ==
  /\ []((phase = "ready" /\ NoReplace)
          => /\ log # << >> /\ log[1].type = INIT /\ log[1].ok
             /\ currentState = Fold(preloaded, log, 1))
  /\ []((phase = "ready" /\ Len(log) = 1)
          => currentState = Reduce(log[1].red, preloaded, INIT).val)
  /\ [][ (phase = "ready" /\ currentState' # currentState) =>
           /\ InReducer /\ Len(stack') = Len(stack)
           /\ stack'[Len(stack)].kind = "notify"
           /\ log' = Append(log, LogEntry(Top, TRUE)) ]_vars
  /\ [][ ret'.op \in {"getState", "subscribe", "unsubscribe"} =>
           currentState' = currentState ]_vars
  /\ [][ (ret'.op = "getState" /\ ret'.kind = "ok") =>
           ret'.val = currentState ]_vars
  /\ []((phase = "ready" /\ preloaded = Undef /\ NoReplace /\ AllOk
           /\ log[1].red = "counter" /\ ~InReducer)
          => /\ LogTypes = << INIT >> => currentState = Num(0)
             /\ LogTypes = << INIT, "INC" >> => currentState = Num(1)
             /\ LogTypes = << INIT, "INC", "NOOP" >> => currentState = Num(1))

\* createStore(counter), dispatch INC, dispatch NOOP, getState() = 1
C7_Witness ==
  /\ phase = "ready" /\ stack = << >> /\ preloaded = Undef
  /\ \A j \in 1..Len(log) : log[j].red = "counter" /\ log[j].ok
  /\ LogTypes = << INIT, "INC", "NOOP" >>
  /\ ret = Ok("getState", 0, Num(1), NoAction)

\* ---------------------------------------------------------------- C8
\* this step is a replaceReducer call whose REPLACE dispatch was accepted
ReplaceAccepted ==
  /\ Len(stack') = Len(stack) + 1
  /\ stack'[Len(stack')].kind = "reducer"
  /\ stack'[Len(stack')].via = "replace"

(* C8 as stated: whenever replaceReducer puts a callable nextReducer in    *)
(* place, the call runs the REPLACE dispatch on the state before the call. *)
C8_SwapRunsReplace ==
  [][ (phase = "ready" /\ currentReducer' # currentReducer) =>
        ReplaceAccepted ]_vars

(* C8 as amended: replaceReducer with a callable nextReducer, called while *)
(* no reducer is executing, keeps the state, puts nextReducer in place and *)
(* dispatches REPLACE: when nextReducer returns, the state is              *)
(* nextReducer(state before the call, REPLACE) and the notification pass   *)
(* over the current listeners begins, a completed pass having called each  *)
(* of them once; later dispatches run nextReducer. Called while a reducer  *)
(* is executing, it puts nextReducer in place and throws the re-entrant    *)
(* dispatch error, with no state change and no notification. With a        *)
(* non-callable argument it throws InvalidReducer and changes nothing.     *)
C8_ReplaceReducer ==
  /\ [][ (ret'.op = "replaceReducer" /\ ret'.err = "InvalidReducer") =>
           UNCHANGED << phase, currentReducer, currentState, currentListeners,
                        nextListeners, heap, isDispatching, regs, stack,
                        log >> ]_vars
  /\ [][ ReplaceAccepted =>
           /\ ~isDispatching /\ isDispatching'
           /\ currentReducer' = stack'[Len(stack')].red
           /\ currentReducer' \in Reducers
           /\ stack'[Len(stack')].action = Action(TRUE, REPLACE)
           /\ stack'[Len(stack')].pre = currentState
           /\ UNCHANGED << currentState, currentListeners, nextListeners,
                           heap, regs >> ]_vars
  /\ [][ (phase = "ready" /\ currentReducer' # currentReducer) =>
           \/ ReplaceAccepted
           \/ /\ isDispatching
              /\ ret' = Throw("replaceReducer", 0, "ReentrantDispatch", "guard",
                              Action(TRUE, REPLACE))
              /\ Len(stack') = Len(stack)
              /\ UNCHANGED << currentState, currentListeners, nextListeners,
                              heap, regs, isDispatching, log >> ]_vars
  /\ [][ (InReducer /\ Top.via = "replace" /\ Len(stack') = Len(stack)
            /\ stack'[Len(stack)].kind = "notify") =>
           /\ currentState' = Reduce(Top.red, Top.pre, REPLACE).val
           /\ stack'[Len(stack)].snap = heap[nextListeners]
           /\ stack'[Len(stack)].i = 0
           /\ stack'[Len(stack)].called = << >> ]_vars
  /\ [](\A j \in NotifyFrames :
          (stack[j].via = "replace" /\ PassComplete(stack[j]))
            => stack[j].called = stack[j].snap)
  /\ [][ (Len(stack') = Len(stack) + 1
            /\ stack'[Len(stack')].kind = "reducer"
            /\ stack'[Len(stack')].via = "app") =>
           stack'[Len(stack')].red = currentReducer ]_vars
  /\ [](\A j \in 1..Len(log) - 1 :
          (log[j].type = REPLACE /\ log[j + 1].type # REPLACE)
            => log[j + 1].red = log[j].red)

\* replaceReducer(double) on the counter at 1: the state is still 1 after
\* the REPLACE dispatch (not the 0 of a fresh start) and the listener has
\* been notified of it
C8_Witness ==
  /\ LogTypes = << INIT, "INC", REPLACE >>
  /\ log[3].red = "double" /\ log[3].ok
  /\ currentReducer = "double"
  /\ currentState = Num(1)
  /\ \E j \in NotifyFrames :
       /\ stack[j].via = "replace"
       /\ PassComplete(stack[j])
       /\ stack[j].called = << "f" >>

\* ---------------------------------------------------------------- C9
\* the final-reducer keys of the call under SpecCombine, its parameter
\* state and what the reducer of key k returns for state[k]
CombFinals == FinalReducerKeys(comb.mapping)
CombKeys == {CombFinals[j].key : j \in 1..Len(CombFinals)}
CombState == StateOrDefault(comb.state)
CombRed(k) == (CHOOSE e \in {CombFinals[j] : j \in 1..Len(CombFinals)} :
                 e.key = k).red
CombNext(k) ==
  SubReduce(CombRed(k), GetProp(CombState, k), comb.type, RefsOf(CombState))
\* the keys whose reducer returns a value that is not identical to state[k]
ChangedKeys ==
  {k \in CombKeys : StrictNeq(CombNext(k), GetProp(CombState, k))}
\* the same value: equal primitives, or the same object
Identical(x, y) == ~StrictNeq(x, y)
\* the same contents, whatever the reference
SameContents(x, y) == x.t = y.t /\ x.n = y.n

(* C9: a call combination(state, action) that returns gives back the       *)
(* state it was given, by identity, exactly when no final-reducer key      *)
(* produced a value that is not identical to state[key]; otherwise it      *)
(* gives a newly allocated object in which every changed key holds its     *)
(* new value and every unchanged key the identical previous value.  For    *)
(* {a: box, b: prim} and an action that changes only a: result !== state,  *)
(* result.b === state.b and result.a !== state.a.                          *)
C9_ReferenceStability ==
  (comb.done /\ comb.res.ok) =>
    LET result == comb.res.val IN
    /\ Identical(result, CombState) <=> ChangedKeys = {}
    /\ ChangedKeys = {} => result = CombState
    /\ ChangedKeys # {} =>
         /\ result.t = "obj"
         /\ result.ref \notin RefsOf(CombState)
         /\ \A k \in CombKeys :
              /\ SameContents(result.m[k], CombNext(k))
              /\ k \in ChangedKeys =>
                   StrictNeq(result.m[k], GetProp(CombState, k))
              /\ k \notin ChangedKeys =>
                   /\ Identical(result.m[k], GetProp(CombState, k))
                   /\ result.m[k] = CombState.m[k]
    /\ (comb.mapping = ComboMapping /\ comb.type = "TOUCH"
          /\ {"a", "b"} \subseteq OwnKeys(CombState)) =>
         /\ StrictNeq(result, CombState)
         /\ Identical(result.m["b"], CombState.m["b"])
         /\ StrictNeq(result.m["a"], CombState.m["a"])

\* {a: box, b: prim} on {a: {n: 1}, b: 1} with an action that makes box
\* return a new object and prim its state
C9_Witness ==
  /\ comb.done /\ comb.res.ok
  /\ comb.mapping = ComboMapping /\ comb.type = "TOUCH"
  /\ comb.state = Obj(1, [NoProps EXCEPT !["a"] = BoxSV(2, 1),
                                          !["b"] = NumSV(1)])
  /\ comb.res.val.ref # 1
  /\ comb.res.val.m["b"] = NumSV(1)
  /\ comb.res.val.m["a"].ref # 2 /\ comb.res.val.m["a"].n = 1

\* --------------------------------------------------------------- C10
(* C10: the state returned by a composed reducer has exactly the           *)
(* final-reducer keys as its top-level keys, for every state and action.   *)
C10_ShapeFixed ==
  (comb.done /\ comb.res.ok) => OwnKeys(comb.res.val) = CombKeys

\* --------------------------------------------------------------- C11
\* the reducer red fails the check of assertReducerShape
FailsInit(red) == SubReduce(red, UndefSV, INIT, {}).t = "undef"
FailsProbe(red) == SubReduce(red, UndefSV, PROBE, {}).t = "undef"
BadShape(mapping) ==
  \E j \in 1..Len(mapping) :
    mapping[j].red # NotFn /\ (FailsInit(mapping[j].red) \/ FailsProbe(mapping[j].red))
ShapeErrors == {"ReducerReturnedUndefined:init", "ReducerReturnedUndefined:probe"}

(* C11: when a final reducer fails the shape check, composing does not     *)
(* throw, and every call of the composed reducer, by the application or    *)
(* by a store, for any state and action, throws the one error of the check *)
(* before any sub-reducer has run, so createStore on it fails in its INIT  *)
(* dispatch; when every final reducer passes, no call throws that error.   *)
C11_ShapeCheckDeferred ==
  LET bad == BadShape(comb.mapping)
      c == CombineReducers(comb.mapping)
  IN  /\ bad <=> c.shapeAssertionError \in ShapeErrors
      /\ ~bad <=> c.shapeAssertionError = "none"
      /\ (comb.done /\ bad) =>
           /\ ~comb.res.ok
           /\ comb.res.err = c.shapeAssertionError
           /\ comb.res.key = "none" /\ comb.res.val = Undef
      /\ (comb.done /\ ~bad) => comb.res.err \notin ShapeErrors
      /\ (bad /\ phase # "new") =>
           /\ phase \in {"creating", "failed"}
           /\ currentState = preloaded
           /\ phase = "failed" =>
                /\ ret = Throw("createStore", 0, c.shapeAssertionError,
                               "reducer", Action(TRUE, INIT))
                /\ log = << [red |-> ComposedFrom(comb.mapping),
                             type |-> INIT, ok |-> FALSE] >>
      /\ ~bad => ret.err \notin ShapeErrors

\* {a: box, b: noinit} was composed; the call on {a: {n: 0}, b: 1} with
\* NOOP, for which both sub-reducers would return their state, and the
\* INIT dispatch of createStore threw the error of the check
C11_Witness ==
  /\ comb.done
  /\ comb.mapping = MapBad /\ comb.type = "NOOP"
  /\ comb.state = Obj(1, [NoProps EXCEPT !["a"] = BoxSV(2, 0),
                                          !["b"] = NumSV(1)])
  /\ comb.res.err = "ReducerReturnedUndefined:init"
  /\ phase = "failed"
  /\ ret.err = "ReducerReturnedUndefined:init"

\* --------------------------------------------------------------- C12
\* the first target of a dispatch on the enhanced store, and the target
\* that follows middleware i in declaration order
MwFirst == IF Len(mw.mids) = 0 THEN Base ELSE 1
MwSucc(i) == IF i = Len(mw.mids) THEN Base ELSE i + 1
\* the events of the trace after its first n
TraceFrom(n) == SubSeq(mw.trace, n + 1, Len(mw.trace))
TraceTags == [j \in 1..Len(mw.trace) |-> mw.trace[j].tag]
\* the call in frame j was made by dispatch of the enhanced store (by the
\* application or through storeAPI.dispatch), not by next(action)
FromDispatch(j) == j = 1 \/ mw.stack[j - 1].stage = "sub"

(* C12: an action dispatched on the enhanced store is seen by m1 first,    *)
(* each mi+1 is called by mi forwarding the action it got, and the base    *)
(* dispatch (reducer call, notification) runs only when mn has forwarded;  *)
(* with mid1 logging "a" and mid2 logging "b" one dispatch logs a, b; and  *)
(* when a middleware returns without calling next, the call returns with   *)
(* no later middleware entered, no reducer call or notification made and   *)
(* the state as it was.                                                    *)
C12_MiddlewareOrder ==
  /\ [](\A j \in 1..Len(mw.stack) :
          /\ FromDispatch(j) => mw.stack[j].idx = MwFirst
          /\ ~FromDispatch(j) =>
               /\ mw.stack[j - 1].stage = "fwd"
               /\ mw.stack[j].idx = MwSucc(mw.stack[j - 1].idx)
               /\ mw.stack[j].type = mw.stack[j - 1].type)
  /\ []((mw.phase = "ready" /\ stack # << >>) =>
          /\ mw.stack # << >>
          /\ MwTop.idx = Base /\ MwTop.stage = "base")
  /\ [][ (mw.phase = "ready"
            /\ (currentState' # currentState \/ log' # log \/ stack' # stack)) =>
           /\ mw.stack # << >> /\ MwTop.idx = Base
           /\ Len(mw.stack) >= 2 =>
                mw.stack[Len(mw.stack) - 1].idx = Len(mw.mids) ]_vars
  /\ [][ Len(mw'.trace) > Len(mw.trace) =>
           LET e == mw'.trace[Len(mw'.trace)]
           IN  /\ mw'.trace = Append(mw.trace, e)
               /\ e.ev \in {"mw", "base"} =>
                    /\ mw.stack # << >> /\ MwTop.stage = "call"
                    /\ e.idx = MwTop.idx /\ e.type = MwTop.type
                    /\ e.ev = "base" <=> e.idx = Base ]_vars
  /\ []((mw.mids = << "logA", "logB" >> /\ mw.calls = 1 /\ mw.stack = << >>)
          => TraceTags = << "a", "b", "-" >>)
  /\ [][ (mw.stack # << >> /\ Len(mw'.stack) < Len(mw.stack)
            /\ mw'.res.short) =>
           LET seen == SubSeq(mw'.trace, MwTop.at + 1, Len(mw'.trace))
           IN  /\ MwTop.idx >= 1
               /\ \A j \in 1..Len(seen) :
                    seen[j].ev = "mw" /\ seen[j].idx = MwTop.idx + j - 1
               /\ currentState' = MwTop.pre
               /\ Len(log') = MwTop.passes
               /\ stack' = << >> ]_vars

\* applyMiddleware(logA, logB): one INC dispatched on the enhanced store
\* has logged a, then b, then reached the base dispatch, and has returned
C12_Witness ==
  /\ mw.mids = << "logA", "logB" >> /\ mw.calls = 1 /\ mw.stack = << >>
  /\ mw.trace = << Event("mw", 1, "a", "INC"), Event("mw", 2, "b", "INC"),
                   Event("base", Base, "-", "INC") >>
  /\ mw.res = Value("INC", FALSE)
  /\ currentState = Num(1)

\* --------------------------------------------------------------- C13
ConstructionError == "DispatchDuringMiddlewareConstruction"
\* how many events of this kind the trace holds
EventCount(ev) == Cardinality({j \in 1..Len(mw.trace) : mw.trace[j].ev = ev})
\* how many of the first n middleware are of one of these kinds
MidCount(ks, n) == Cardinality({j \in 1..n : mw.mids[j] \in ks})
\* this step is a call of storeAPI.dispatch by a handler
HandlerDispatches ==
  /\ mw.stack # << >> /\ MwTop.stage = "call"
  /\ Len(mw'.stack) = Len(mw.stack) + 1
  /\ mw'.stack[Len(mw.stack)].stage = "sub"

(* C13: a call of storeAPI.dispatch by a middleware factory throws the     *)
(* construction error and reaches no middleware and not the store, every   *)
(* such call does; and once applyMiddleware has built the chain, a call of *)
(* storeAPI.dispatch is a call of the handler of the first middleware,     *)
(* never of the base dispatch nor of the throwing dispatch.                *)
C13_ApiDispatchBinding ==
  /\ [][ (Len(mw'.trace) > Len(mw.trace)
            /\ mw'.trace[Len(mw'.trace)].ev = "stub") =>
           /\ mw.phase = "applied"
           /\ mw.mids[mw.built + 1] \in {"eager", "eagerCatch"}
           /\ \/ mw'.phase = "failed" /\ mw'.res = Raised(ConstructionError)
              \/ mw'.phase = "applied" /\ mw'.caught
           /\ mw'.stack = << >>
           /\ UNCHANGED StoreVars ]_vars
  /\ [](mw.phase \in {"applied", "failed"} =>
          /\ mw.stack = << >>
          /\ EventCount("mw") = 0 /\ EventCount("base") = 0
          /\ \A j \in 1..Len(log) : log[j].type = INIT
          /\ EventCount("stub") =
               MidCount({"eager", "eagerCatch"},
                        mw.built + (IF mw.phase = "failed" THEN 1 ELSE 0)))
  /\ [](mw.phase = "failed" =>
          mw.mids[mw.built + 1] = "eager" /\ mw.res = Raised(ConstructionError))
  /\ [](mw.phase = "ready" =>
          /\ MidCount({"eager"}, Len(mw.mids)) = 0
          /\ EventCount("stub") = MidCount({"eagerCatch"}, Len(mw.mids))
          /\ mw.res.err # ConstructionError
          /\ mw.head = MwFirst
          /\ \A j \in 1..Len(mw.stack) : mw.stack[j].idx # Stub)
  /\ [][ mw.phase = "ready" => Len(mw'.trace) >= Len(mw.trace)
           /\ (Len(mw'.trace) > Len(mw.trace)
                 => mw'.trace[Len(mw'.trace)].ev # "stub") ]_vars
  /\ [][ HandlerDispatches =>
           /\ mw.phase = "ready"
           /\ mw'.stack[Len(mw'.stack)].idx = 1
           /\ mw'.stack[Len(mw'.stack)].stage = "call"
           /\ mw'.res.kind # "throw" ]_vars

\* applyMiddleware(eagerCatch, logB): the factory's dispatch threw; now the
\* handler of eagerCatch has called storeAPI.dispatch(NOOP), which went
\* through both handlers and is in the base dispatch
C13_Witness ==
  /\ mw.mids = << "eagerCatch", "logB" >> /\ mw.caught
  /\ Len(mw.stack) = 4
  /\ mw.stack[1].stage = "sub" /\ mw.stack[1].type = "INC"
  /\ mw.stack[2].idx = 1 /\ mw.stack[3].idx = 2
  /\ MwTop.stage = "base" /\ MwTop.type = "NOOP"
  /\ mw.trace = << Event("stub", 1, "-", "INC"), Event("mw", 1, "-", "INC"),
                   Event("mw", 1, "-", "NOOP"), Event("mw", 2, "b", "NOOP"),
                   Event("base", Base, "-", "NOOP") >>

\* --------------------------------------------------------------- C14
\* the sequence t is s without one of its occurrences of f
WithoutOne(s, t, f) ==
  \E k \in 1..Len(s) :
    s[k] = f /\ t = SubSeq(s, 1, k - 1) \o SubSeq(s, k + 1, Len(s))
\* this step is a call of the closure unsubscribe number r that ended
UnsubscribeCalled(r) ==
  r \in 1..Len(regs) /\ ret'.op = "unsubscribe" /\ ret'.arg = r

(* C14: outside a reducer the first call of an unsubscribe closure returns *)
(* and takes one occurrence of its listener out of the listener list,      *)
(* leaving all the rest and the state as they are; every later call of     *)
(* the closure returns and changes nothing; so the list always holds each  *)
(* function once per registration that has not been unsubscribed, a        *)
(* second registration of the same function included.                      *)
C14_UnsubscribeIdempotent ==
  /\ [][ \A r \in 1..MaxRegs :
           (UnsubscribeCalled(r) /\ regs[r].isSubscribed /\ ~isDispatching) =>
             /\ ret'.kind = "ok"
             /\ regs' = [regs EXCEPT ![r].isSubscribed = FALSE]
             /\ WithoutOne(heap[nextListeners], heap'[nextListeners'],
                           regs[r].fn)
             /\ UNCHANGED << currentState, currentReducer, isDispatching >> ]_vars
  /\ [][ \A r \in 1..MaxRegs :
           (UnsubscribeCalled(r) /\ ~regs[r].isSubscribed) =>
             /\ ret'.kind = "ok"
             /\ heap'[nextListeners'] = heap[nextListeners]
             /\ heap'[currentListeners'] = heap[currentListeners]
             /\ UNCHANGED << regs, currentState, currentReducer,
                             isDispatching, stack >> ]_vars
  /\ [](\A f \in Fns :
          Count(heap[nextListeners], f) =
            Cardinality({r \in 1..Len(regs) :
                           regs[r].fn = f /\ regs[r].isSubscribed}))

\* f was subscribed twice and the first closure was called before this
\* pass began; the pass calls the one f that is left, and that listener has
\* called the first closure again
C14_Witness ==
  /\ Len(regs) = 2 /\ regs[1].fn = regs[2].fn
  /\ ~regs[1].isSubscribed /\ regs[2].isSubscribed
  /\ Len(stack) = 2 /\ stack[2].kind = "listener"
  /\ stack[1].kind = "notify" /\ stack[1].snap = << regs[2].fn >>
  /\ ~stack[1].mutated
  /\ ret = Ok("unsubscribe", 1, Undef, NoAction)
  /\ heap[nextListeners] = << regs[2].fn >>

\* --------------------------------------------------------------- C15
ActionErrors == {"InvalidAction", "MissingActionType"}

(* C15: dispatch of a value that is not a plain object throws              *)
(* InvalidAction, and dispatch of a plain object without a type throws     *)
(* MissingActionType, wherever it is called; such a call leaves the state, *)
(* the reducer, the listener lists, the flag and the calls in progress as  *)
(* they are, so no reducer call and no notification is made for it.        *)
C15_InvalidActionRejected ==
  /\ [][ ret'.op = "dispatch" =>
           /\ ~ret'.act.plain =>
                ret' = Throw("dispatch", 0, "InvalidAction", "guard", ret'.act)
           /\ (ret'.act.plain /\ ret'.act.type = NoType) =>
                ret' = Throw("dispatch", 0, "MissingActionType", "guard",
                             ret'.act)
           /\ ret'.err \in ActionErrors =>
                UNCHANGED << phase, currentState, currentReducer,
                             currentListeners, nextListeners, heap, regs,
                             isDispatching, stack, log >> ]_vars
  /\ [](\A j \in 1..Len(stack) :
          stack[j].kind \in {"reducer", "notify"} =>
            stack[j].action.plain /\ stack[j].action.type # NoType)
  /\ [](\A j \in 1..Len(log) : log[j].type # NoType)

\* a reducer called dispatch with a value that is not a plain object: the
\* call threw InvalidAction and the flag is still set for the reducer
C15_Witness ==
  /\ ret = Throw("dispatch", 0, "InvalidAction", "guard", Action(FALSE, "INC"))
  /\ isDispatching /\ InReducer
  /\ Top.rejected = "none"
  /\ regs # << >>

\* --------------------------------------------------------------- C16
\* frame j is a dispatch call of application code that ends in this step
DispatchEnds(j) ==
  /\ j \in 1..Len(stack)
  /\ stack[j].kind \in {"reducer", "notify"} /\ stack[j].via = "app"
  /\ Len(stack') < j

(* C16: a dispatch call of the application that was accepted ends in one   *)
(* of three ways: its reducer throws, one of its listeners throws, or it   *)
(* returns, and then it returns the action it was given, whatever the      *)
(* reducer returned and whether or not the state changed.                  *)
C16_DispatchReturnsAction ==
  [][ \A j \in 1..Len(stack) :
        DispatchEnds(j) =>
          /\ ret'.op = "dispatch"
          /\ \/ /\ ret' = Ok("dispatch", 0, Undef, stack[j].action)
                /\ j = Len(stack) /\ stack[j].kind = "notify"
                /\ PassComplete(stack[j])
             \/ /\ ret'.kind = "throw" /\ ret'.at = "reducer"
                /\ j = Len(stack) /\ stack[j].kind = "reducer"
             \/ /\ ret'.kind = "throw" /\ ret'.at = "listener"
                /\ j = Len(stack) - 1 /\ stack[j].kind = "notify" ]_vars

\* dispatch({type: NOOP}) on the counter store with a listener returned
\* its action, the state being what it was
C16_Witness ==
  /\ stack = << >>
  /\ ret = Ok("dispatch", 0, Undef, Action(TRUE, "NOOP"))
  /\ LogTypes = << INIT, "NOOP" >> /\ AllOk
  /\ currentState = Fold(preloaded, SubSeq(log, 1, 1), 1)
  /\ LiveFns(regs) # << >>

\* --------------------------------------------------------------- C17
\* f1(f2(...fn(x))) for the primitive functions fs = << f1, ..., fn >>
RECURSIVE Nested(_, _)
Nested(fs, x) ==
  IF fs = << >> THEN x ELSE ApplyPrim(fs[1].id, Nested(Tail(fs), x))

(* C17: the function compose(f1, ..., fn) returns maps x to                *)
(* f1(f2(...fn(x))), the rightmost function applied first; compose() maps  *)
(* every x to x; compose(f) is the function object f itself.               *)
C17_ComposeRightToLeft ==
  /\ cmp.step >= 1 =>
       /\ Len(cmp.funcs) = 1 => cmp.fn = cmp.funcs[1]
       /\ Len(cmp.funcs) = 0 => cmp.fn = Identity
       /\ Len(cmp.funcs) >= 2 => cmp.fn.id \notin {cmp.funcs[i].id : i \in 1..Len(cmp.funcs)}
  /\ cmp.step = 2 =>
       /\ cmp.out = Nested(cmp.funcs, cmp.x)
       /\ Len(cmp.funcs) = 0 => cmp.out = cmp.x

\* compose(inc, dbl, neg)(2) = inc(dbl(neg(2))) = -3, where applying the
\* functions left to right would give -6
C17_Witness ==
  /\ cmp.step = 2
  /\ cmp.funcs = << PrimFn("inc"), PrimFn("dbl"), PrimFn("neg") >>
  /\ cmp.x = 2
  /\ cmp.out = -3

\* --------------------------------------------------------------- C18
(* C18: a dispatch made by a listener runs as a whole inside the call of   *)
(* that listener.  Its pass begins over nextListeners as it stands then    *)
(* (with what the outer pass subscribed and unsubscribed so far), it       *)
(* returns only after that pass called every listener of its snapshot,     *)
(* and while it runs the outer pass does not move.  The outer pass then    *)
(* goes on over its own snapshot: the array a pass iterates is never       *)
(* changed, and the listeners a pass has called are a prefix of it, all    *)
(* of it once the pass is complete.                                        *)
C18_NestedPassesIntact ==
  /\ [](\A j \in NotifyFrames :
          /\ heap[stack[j].listeners] = stack[j].snap
          /\ Len(stack[j].called) <= Len(stack[j].snap)
          /\ \A q \in 1..Len(stack[j].called) :
               stack[j].called[q] = stack[j].snap[q]
          /\ Len(stack[j].called) = stack[j].i + (IF j < Len(stack) THEN 1 ELSE 0)
          /\ PassComplete(stack[j]) => stack[j].called = stack[j].snap)
  /\ [][ \A j \in NotifyFrames :
           j <= Len(stack') =>
             /\ stack'[j].kind = "notify"
             /\ stack'[j].listeners = stack[j].listeners
             /\ stack'[j].snap = stack[j].snap
             /\ heap'[stack[j].listeners] = heap[stack[j].listeners] ]_vars
  /\ [][ \A j \in NotifyFrames :
           Len(stack) >= j + 2 =>
             Len(stack') >= j + 1 /\ stack'[j] = stack[j] ]_vars
  /\ [][ (NestedIn(Len(stack)) /\ Top.kind = "reducer"
            /\ Len(stack') = Len(stack)
            /\ stack'[Len(stack)].kind = "notify") =>
           LET fr == stack'[Len(stack)] IN
           /\ fr.snap = heap[nextListeners]
           /\ SameBag(fr.snap, LiveFns(regs))
           /\ fr.i = 0 /\ fr.called = << >> ]_vars
  /\ [][ (NestedIn(Len(stack)) /\ Len(stack') = Len(stack) - 1
            /\ ret'.kind = "ok") =>
           /\ Top.kind = "notify"
           /\ PassComplete(Top) /\ Top.called = Top.snap
           /\ stack' = Pop(stack) ]_vars

\* the first of the two listeners of a pass changed the membership and
\* dispatched again; the nested dispatch has run its reducer (the counter
\* is 2) and its pass and has returned into the listener, and the outer
\* pass still has its second listener to call
C18_Witness ==
  /\ Len(stack) = 2 /\ Top.kind = "listener"
  /\ ret = Ok("dispatch", 0, Undef, Action(TRUE, "INC"))
  /\ stack[1].kind = "notify" /\ stack[1].i = 0
  /\ stack[1].pre = Num(0) /\ currentState = Num(2)
  /\ stack[1].mutated
  /\ Len(stack[1].snap) = 2 /\ stack[1].called = << stack[1].snap[1] >>
  /\ heap[nextListeners] # stack[1].snap

\* --------------------------------------------------------------- C19
\* this step is the return of the reducer call of the dispatch on top
ReducerReturned ==
  /\ InReducer
  /\ log' = Append(log, LogEntry(Top, TRUE))

(* C19: when the reducer of a dispatch returns - of an application         *)
(* dispatch, recognised or not, or of the REPLACE dispatch of              *)
(* replaceReducer - the state cell is assigned, the flag is reset and a    *)
(* pass begins over one entry for every subscribed registration, also      *)
(* when the new state is the old one; the call returns only after every    *)
(* entry was called once; and getState called by a listener succeeds and   *)
(* returns the state cell, which is the reducer's result for this          *)
(* dispatch unless a later dispatch has replaced it.                       *)
C19_AlwaysNotifies ==
  /\ [][ ReducerReturned =>
           /\ Len(stack') = Len(stack)
           /\ LET fr == stack'[Len(stack)] IN
              /\ fr.kind = "notify" /\ fr.i = 0 /\ fr.called = << >>
              /\ fr.snap = heap'[fr.listeners]
              /\ fr.snap = LiveFns(regs)
              /\ fr.action = Top.action /\ fr.via = Top.via
           /\ currentState' = Reduce(Top.red, Top.pre, Top.action.type).val
           /\ ~isDispatching' ]_vars
  /\ [][ (stack # << >> /\ Top.kind = "notify" /\ Len(stack') < Len(stack)) =>
           /\ ret'.kind = "ok"
           /\ Top.i = Len(Top.snap)
           /\ Top.called = Top.live ]_vars
  /\ [][ (stack # << >> /\ Top.kind = "notify" /\ Top.i < Len(Top.live)) =>
           /\ Len(stack') = Len(stack) + 1
           /\ stack'[Len(stack')] = ListenerFrame(Top.live[Top.i + 1]) ]_vars
  /\ [][ (Ctx = "listener" /\ ret'.op = "getState") =>
           ret' = Ok("getState", 0, currentState, NoAction) ]_vars
  /\ [][ (phase = "ready" /\ currentState' # currentState) =>
           ReducerReturned ]_vars
  /\ [](Ctx \in {"listener", "notify"} => ~isDispatching)

\* the listener of the pass of dispatch({type: NOOP}), which left the
\* state as it was, has called getState and got the state
C19_Witness ==
  /\ Len(stack) = 2 /\ Top.kind = "listener"
  /\ stack[1].kind = "notify" /\ stack[1].via = "app"
  /\ stack[1].action = Action(TRUE, "NOOP")
  /\ stack[1].pre = currentState
  /\ ret = Ok("getState", 0, currentState, NoAction)

\* --------------------------------------------------------------- C20
\* this step is a listener throwing: its frame and the frame of the
\* dispatch that called it are gone
ListenerThrew ==
  /\ stack # << >> /\ Top.kind = "listener"
  /\ Len(stack') = Len(stack) - 2

(* C20: when a listener throws, the error leaves the dispatch call that    *)
(* was notifying: the call ends with the listener's error, the loop is     *)
(* abandoned after the listeners called so far, the state cell, the        *)
(* dispatch log and the listener list stay as they are and the flag is     *)
(* false.  A dispatch accepted after that runs the reducer on the          *)
(* committed state, and its pass, like every pass, begins over one entry   *)
(* for every subscribed registration.                                      *)
C20_ListenerThrowPropagates ==
  /\ [][ ListenerThrew =>
           LET d == stack[Len(stack) - 1] IN
           /\ d.kind = "notify"
           /\ ret' = Throw(OpOf(d.via), 0, "ListenerError", "listener", d.action)
           /\ stack' = SubSeq(stack, 1, Len(stack) - 2)
           /\ d.called = SubSeq(d.snap, 1, d.i + 1) /\ d.called[d.i + 1] = Top.fn
           /\ currentState' = currentState /\ log' = log
           /\ \E k \in 1..Len(log) : log[k] = LogEntry(d, TRUE)
           /\ ~isDispatching'
           /\ regs' = regs /\ nextListeners' = nextListeners
           /\ heap'[nextListeners] = heap[nextListeners] ]_vars
  /\ [](ret.err = "ListenerError" =>
          /\ ~isDispatching
          /\ SameBag(heap[nextListeners], LiveFns(regs))
          /\ Len(heap[nextListeners]) = Len(LiveFns(regs)))
  /\ [][ (ret.err = "ListenerError" /\ Len(stack') = Len(stack) + 1) =>
           /\ stack'[Len(stack')].kind = "reducer"
           /\ stack'[Len(stack')].pre = currentState
           /\ currentState' = currentState ]_vars
  /\ [][ ReducerReturned =>
           LET fr == stack'[Len(stack)] IN
           /\ fr.kind = "notify" /\ fr.i = 0
           /\ fr.snap = heap[nextListeners]
           /\ SameBag(fr.snap, LiveFns(regs))
           /\ Len(fr.snap) = Len(LiveFns(regs)) ]_vars

\* the first of two listeners threw during the pass of dispatch(INC): the
\* call has ended with the error, the counter is 1 and both listeners are
\* still subscribed
C20_Witness ==
  /\ stack = << >>
  /\ ret = Throw("dispatch", 0, "ListenerError", "listener", Action(TRUE, "INC"))
  /\ LogTypes = << INIT, "INC" >> /\ AllOk
  /\ currentState = Num(1)
  /\ ~isDispatching
  /\ Len(heap[nextListeners]) = 2

====
